---- MODULE Spec2Model ----
(***************************************************************************)
(* A model of supen_analysis.py: the per-horizon fetch with its tolerant   *)
(* JSON-shape detection (fetch_returns_for_horizon), the merge of the      *)
(* three horizon maps over the operator table (collect_returns), the       *)
(* ranking by long term return (create_ranking) and the command line       *)
(* entry point that sequences them (main).                                 *)
(*                                                                         *)
(* Python strings that the program takes apart (operator codes, the raw    *)
(* text of a return value) are sequences of one-character strings, so      *)
(* that str.strip() and float() are computed, not assumed.  Floats are     *)
(* integers.  None is the record NoneVal.                                  *)
(***************************************************************************)
EXTENDS Integers, Sequences, FiniteSets, TLC

\* ------------------------------------------------------------------ bounds

\* Longest list of records in a response body drawn by InitFetch.
MaxRecords == 2

\* Longest list of ReturnData handed to create_ranking by InitRank.
MaxRows == 3

\* Largest long term return drawn by InitRank.
MaxVal == 2

\* Longest operator directory drawn by InitAggregate.
MaxOps == 2

\* ------------------------------------------------------ JSON values (slots)

\* One slot of a JSON object: the key is missing, or holds null, a string,
\* a number, or an integer too large for a float.
Slot(t, s, n) == [t |-> t, s |-> s, n |-> n]

Missing == Slot("missing", <<>>, 0)

JNull == Slot("null", <<>>, 0)

JStr(s) == Slot("str", s, 0)

JNum(n) == Slot("num", <<>>, n)

JBigInt == Slot("bigint", <<>>, 0)

\* One element of the located list: a JSON object with the four fields the
\* program reads, or something that is not an object (a number, a string).
Obj(a, b, c, r) ==
    [kind |-> "object", operadora |-> a, operador |-> b,
     codigo_operadora |-> c, rendimiento |-> r]

NotAnObject == [kind |-> "scalar", operadora |-> Missing, operador |-> Missing,
                codigo_operadora |-> Missing, rendimiento |-> Missing]

\* ------------------------------------------------------------ configuration

Horizons == {"short", "medium", "long"}

ENDPOINTS ==
    [h \in Horizons |->
        [endpoint |-> CASE h = "short" -> "/rendimientos/nominal/12meses"
                        [] h = "medium" -> "/rendimientos/nominal/36meses"
                        [] OTHER -> "/rendimientos/nominal/60meses",
         field |-> "rendimiento"]]

\* The table of the program; names are plain ASCII here.
OPERATORS ==
    << [name |-> "BN Vital", code |-> <<"B", "N", "V">>],
       [name |-> "BCR Pensiones", code |-> <<"B", "C", "R">>],
       [name |-> "Popular Pensiones", code |-> <<"P", "O", "P">>],
       [name |-> "BAC San Jose", code |-> <<"B", "A", "C">>],
       [name |-> "Vida Plena", code |-> <<"V", "I", "D">>],
       [name |-> "ACOFINSA", code |-> <<"A", "C", "O">>] >>

CALL_DELAY_SEC == 10

\* ------------------------------------------------------------ Python helpers

Whitespace == {" "}

DigitChars == <<"0", "1", "2", "3", "4", "5", "6", "7", "8", "9">>

IsDigit(c) == \E i \in 1..10 : DigitChars[i] = c

DigitValue(c) == (CHOOSE i \in 1..10 : DigitChars[i] = c) - 1

RECURSIVE LStrip(_)
LStrip(s) ==
    IF s # <<>> /\ Head(s) \in Whitespace THEN LStrip(Tail(s)) ELSE s

RECURSIVE RStrip(_)
RStrip(s) ==
    IF s # <<>> /\ s[Len(s)] \in Whitespace
    THEN RStrip(SubSeq(s, 1, Len(s) - 1))
    ELSE s

\* str.strip()
Strip(s) == RStrip(LStrip(s))

RECURSIVE IntToStr(_)
IntToStr(n) ==
    IF n < 10 THEN <<DigitChars[n + 1]>>
    ELSE IntToStr(n \div 10) \o <<DigitChars[(n % 10) + 1]>>

\* str(operator_code), for the truthy codes the program applies it to
PyStr(v) == IF v.t = "str" THEN v.s ELSE IntToStr(v.n)

\* bool(operator_code): None, "" and 0 are false
Truthy(v) ==
    CASE v.t = "str" -> v.s # <<>>
      [] v.t = "num" -> v.n # 0
      [] v.t = "bigint" -> TRUE
      [] OTHER -> FALSE

RECURSIVE DigitsToInt(_)
DigitsToInt(s) ==
    IF s = <<>> THEN 0
    ELSE 10 * DigitsToInt(SubSeq(s, 1, Len(s) - 1)) + DigitValue(s[Len(s)])

\* float(value): the exception it raises ("none" for none) and its result.
\* A string is stripped and must then be a numeral; None is a TypeError; an
\* integer beyond the float range is an OverflowError.
PyFloat(v) ==
    CASE v.t = "num" -> [exc |-> "none", val |-> v.n]
      [] v.t = "str" ->
            LET t == Strip(v.s) IN
            IF t # <<>> /\ \A i \in 1..Len(t) : IsDigit(t[i])
            THEN [exc |-> "none", val |-> DigitsToInt(t)]
            ELSE [exc |-> "ValueError", val |-> 0]
      [] v.t = "bigint" -> [exc |-> "OverflowError", val |-> 0]
      [] OTHER -> [exc |-> "TypeError", val |-> 0]

\* dict.get(key, default): the default only when the key is missing
Get(rec, key, default) == IF rec[key].t = "missing" THEN default ELSE rec[key]

\* ------------------------------------------------- fetch_returns_for_horizon

EmptyMap == [k \in {} |-> 0]

\* Store with the first record of a code kept instead of the last.
StoreKeepFirst(result, key, val) == result @@ (key :> val)

\* result[key] = val
Store(result, key, val) == (key :> val) @@ result

\* The nested rec.get of the loop body.
OperatorCode(rec) ==
    Get(rec, "operadora", Get(rec, "operador", Get(rec, "codigo_operadora", JNull)))

CaughtInLoop == {"KeyError", "ValueError", "TypeError"}

\* One pass of the loop body over rec: the exception that leaves the try
\* statement ("none" when the body completed or the except clause caught
\* it) and the map afterwards.
ProcessRecord(result, rec, field) ==
    IF rec.kind # "object"
    THEN [exc |-> "AttributeError", result |-> result]
    ELSE LET operator_code == OperatorCode(rec) IN
         IF rec[field].t = "missing"
         THEN [exc |-> "none", result |-> result]
         ELSE IF ~Truthy(operator_code)
         THEN [exc |-> "none", result |-> result]
         ELSE LET f == PyFloat(rec[field]) IN
              IF f.exc = "none"
              THEN [exc |-> "none",
                    result |-> Store(result, Strip(PyStr(operator_code)), f.val)]
              ELSE IF f.exc \in CaughtInLoop
              THEN [exc |-> "none", result |-> result]
              ELSE [exc |-> f.exc, result |-> result]

RECURSIVE ProcessRecords(_, _, _)
ProcessRecords(result, records, field) ==
    IF records = <<>> THEN [exc |-> "none", result |-> result]
    ELSE LET step == ProcessRecord(result, Head(records), field) IN
         IF step.exc # "none" THEN step
         ELSE ProcessRecords(step.result, Tail(records), field)

\* A value under an envelope key: the key is absent, holds something that
\* is not a list, or holds a list.
Absent == [t |-> "absent", items |-> <<>>]

NonList == [t |-> "other", items |-> <<>>]

ListOf(items) == [t |-> "list", items |-> items]

EnvelopeKeys == <<"datos", "data", "records", "result">>

\* A JSON body: a bare list, a mapping, or anything else.
BareList(items) ==
    [kind |-> "list", items |-> items, datos |-> Absent, data |-> Absent,
     records |-> Absent, result |-> Absent, foo |-> Absent]

Mapping(d1, d2, d3, d4, other) ==
    [kind |-> "dict", items |-> <<>>, datos |-> d1, data |-> d2,
     records |-> d3, result |-> d4, foo |-> other]

ScalarBody ==
    [kind |-> "scalar", items |-> <<>>, datos |-> Absent, data |-> Absent,
     records |-> Absent, result |-> Absent, foo |-> Absent]

\* FirstListKey without the isinstance test: the first key in the mapping.
FirstPresentKey(data) ==
    IF \E i \in 1..Len(EnvelopeKeys) : data[EnvelopeKeys[i]].t # "absent"
    THEN CHOOSE i \in 1..Len(EnvelopeKeys) :
            /\ data[EnvelopeKeys[i]].t # "absent"
            /\ \A j \in 1..(i - 1) : data[EnvelopeKeys[j]].t = "absent"
    ELSE 0

\* The for/break over the envelope keys: the index of the first key that is
\* in the mapping and holds a list, 0 when there is none (records is None).
FirstListKey(data) ==
    IF \E i \in 1..Len(EnvelopeKeys) : data[EnvelopeKeys[i]].t = "list"
    THEN CHOOSE i \in 1..Len(EnvelopeKeys) :
            /\ data[EnvelopeKeys[i]].t = "list"
            /\ \A j \in 1..(i - 1) : data[EnvelopeKeys[j]].t # "list"
    ELSE 0

\* The list of records located in the body, or the KeyError.
LocateRecords(data) ==
    CASE data.kind = "dict" ->
            IF FirstListKey(data) = 0
            THEN [exc |-> "KeyError", records |-> <<>>]
            ELSE [exc |-> "none",
                  records |-> data[EnvelopeKeys[FirstListKey(data)]].items]
      [] data.kind = "list" -> [exc |-> "none", records |-> data.items]
      [] OTHER -> [exc |-> "KeyError", records |-> <<>>]

\* What the transport hands back: the call failed to connect, returned an
\* error status, returned a body that is not JSON, or returned a JSON body.
Response(transport, body) == [transport |-> transport, body |-> body]

TransportExc(resp) ==
    CASE resp.transport = "connection" -> "ConnectionError"
      [] resp.transport = "status" -> "HTTPError"
      [] resp.transport = "notjson" -> "JSONDecodeError"
      [] OTHER -> "none"

\* fetch_returns_for_horizon(horizon) on the response resp: the exception it
\* raises ("none" when it returns) and the map it returns.
fetch_returns_for_horizon(horizon, resp) ==
    IF horizon \notin DOMAIN ENDPOINTS
    THEN [exc |-> "ValueError", result |-> EmptyMap]
    ELSE LET cfg == ENDPOINTS[horizon] IN
         IF TransportExc(resp) # "none"
         THEN [exc |-> TransportExc(resp), result |-> EmptyMap]
         ELSE LET located == LocateRecords(resp.body) IN
              IF located.exc # "none"
              THEN [exc |-> located.exc, result |-> EmptyMap]
              ELSE LET done == ProcessRecords(EmptyMap, located.records, cfg.field) IN
                   IF done.exc # "none"
                   THEN [exc |-> done.exc, result |-> EmptyMap]
                   ELSE done

\* ------------------------------------------------------------ ReturnData

\* Optional[float]
NoneVal == [present |-> FALSE, v |-> 0]

Some(n) == [present |-> TRUE, v |-> n]

ReturnData(operator, short, medium, long) ==
    [operator |-> operator, short |-> short, medium |-> medium, long |-> long]

as_dict(rd) ==
    [Operator |-> rd.operator, Short_term |-> rd.short,
     Medium_term |-> rd.medium, Long_term |-> rd.long]

\* MapGet with a default of 0 instead of None.
MapGetZero(m, code) == IF code \in DOMAIN m THEN Some(m[code]) ELSE Some(0)

\* dict.get(code): None when code is not a key
MapGet(m, code) == IF code \in DOMAIN m THEN Some(m[code]) ELSE NoneVal

\* ------------------------------------------------------------ collect_returns

\* The loop over the operator table: one ReturnData per entry, in the
\* table's order, each horizon looked up by the entry's code.
Aggregate(operators, short_map, medium_map, long_map) ==
    [i \in 1..Len(operators) |->
        ReturnData(operators[i].name,
                   MapGet(short_map, operators[i].code),
                   MapGet(medium_map, operators[i].code),
                   MapGet(long_map, operators[i].code))]

\* ------------------------------------------------------------ create_ranking

\* pd.DataFrame([rd.as_dict() for rd in returns]): the rows, each under the
\* index label of its position in the list.
DataFrame(returns) ==
    [i \in 1..Len(returns) |-> [index |-> i - 1, row |-> as_dict(returns[i])]]

\* SortsBefore with ascending=True.
SortsBeforeAscending(a, b) ==
    /\ a.row.Long_term.present
    /\ \/ ~b.row.Long_term.present
       \/ a.row.Long_term.v < b.row.Long_term.v

\* a sorts strictly before b under by="Long term", ascending=False,
\* na_position="last"
SortsBefore(a, b) ==
    /\ a.row.Long_term.present
    /\ \/ ~b.row.Long_term.present
       \/ a.row.Long_term.v > b.row.Long_term.v

\* df.sort_values(by="Long term", ascending=False, na_position="last"), with
\* the default kind="quicksort", which is not a stable sort: every
\* arrangement of the rows that respects the order is an outcome.
SortValues(df) ==
    { [i \in 1..Len(df) |-> df[p[i]]] :
        p \in { q \in Permutations(1..Len(df)) :
                  \A i, j \in 1..Len(df) :
                      i < j => ~SortsBefore(df[q[j]], df[q[i]]) } }

create_ranking(returns) == SortValues(DataFrame(returns))

\* ------------------------------------------------------------------ state

VARIABLES
    pc,            \* where main is
    server,        \* the responses the API may give to the next call
    response,      \* the response the last call received
    fetched,       \* what the last fetch_returns_for_horizon call did
    operators,     \* the operator table the run uses
    short_data,    \* collect_returns' locals
    medium_data,
    long_data,
    returns_list,  \* main's returns_list
    ranking_df,    \* main's ranking_df
    error,         \* the except clause of main that ran
    events         \* the calls made so far, in order

vars == <<pc, server, response, fetched, operators, short_data, medium_data,
          long_data, returns_list, ranking_df, error, events>>

Event(op, horizon, exc, secs) ==
    [op |-> op, horizon |-> horizon, exc |-> exc, secs |-> secs]

NoResponse == Response("unsent", ScalarBody)

NotCalled == [exc |-> "pending", result |-> EmptyMap]

\* The except clauses of main, in order.
Handler(exc) ==
    CASE exc = "HTTPError" -> "HTTP error when contacting SUPEN API"
      [] exc = "KeyError" -> "Unexpected data format"
      [] OTHER -> "An error occurred"

\* ----------------------------------------------------------------- inputs

SeqsUpTo(S, n) == UNION { [1..k -> S] : k \in 0..n }

Code(s) == JStr(s)

\* Responses of the API in a run of the whole program.
PipelineResponses ==
    { Response("ok", BareList(<<
          Obj(Code(<<"B", "N", "V">>), Missing, Missing, JNum(8)),
          Obj(Missing, Code(<<"B", "C", "R">>), Missing, JNum(9)) >>)),
      Response("ok", Mapping(ListOf(<<
          Obj(Code(<<"P", "O", "P">>), Missing, Missing, JNum(7)),
          Obj(Code(<<" ", "B", "N", "V", " ">>), Missing, Missing, JStr(<<"7">>)),
          Obj(Code(<<"Z", "Z", "Z">>), Missing, Missing, JNum(5)) >>),
          Absent, Absent, Absent, Absent)),
      Response("ok", BareList(<<>>)),
      Response("ok", BareList(<<NotAnObject>>)),
      Response("ok", Mapping(Absent, Absent, Absent, Absent, ListOf(<<>>))),
      Response("ok", ScalarBody),
      Response("status", ScalarBody),
      Response("connection", ScalarBody) }

\* Elements of a response's list: objects that differ in which code fields
\* they carry, in the text of the code, and in the value.
FallbackObjects ==
    { Obj(a, b, c, JNum(1)) :
        a \in {Missing, JNull, Code(<<"a">>)},
        b \in {Missing, JNull, Code(<<"b">>)},
        c \in {Missing, Code(<<"c">>)} }

CodeTexts ==
    { <<>>, <<" ">>, <<"a">>, <<" ", "a">>, <<"a", " ">>, <<"b">> }

CodeObjects ==
    { Obj(Code(s), Missing, Missing, JNum(v)) : s \in CodeTexts, v \in {1, 2} }
    \cup { Obj(JNum(n), Missing, Missing, JNum(1)) : n \in {0, 7} }

ValueObjects ==
    { Obj(Code(<<"a">>), Missing, Missing, r) :
        r \in {Missing, JNull, JStr(<<"n", "/", "a">>), JStr(<<" ", "2">>), JBigInt} }

Elements == FallbackObjects \cup CodeObjects \cup ValueObjects \cup {NotAnObject}

\* Mappings that differ in what each envelope key holds; the list under the
\* i-th key, when not empty, holds one record of value i.
Marker(i) == ListOf(<<Obj(Code(<<"a">>), Missing, Missing, JNum(i))>>)

UnderKey(i) == {Absent, NonList, ListOf(<<>>), Marker(i)}

EnvelopeBodies ==
    { Mapping(d1, d2, d3, d4, o) :
        d1 \in UnderKey(1), d2 \in UnderKey(2), d3 \in UnderKey(3),
        d4 \in UnderKey(4), o \in {Absent, Marker(5)} }

FetchResponses ==
    { Response("ok", b) :
        b \in EnvelopeBodies
              \cup { BareList(l) : l \in SeqsUpTo(Elements, MaxRecords) }
              \cup { Mapping(Absent, NonList, ListOf(l), Absent, Absent) :
                        l \in SeqsUpTo(ValueObjects \cup {NotAnObject}, 1) }
              \cup {ScalarBody} }
    \cup { Response(t, ScalarBody) : t \in {"connection", "status", "notjson"} }

\* Operator tables and horizon maps for the merge.
AggCodes == { <<"a">>, <<"b">> }

AggNames == <<"X", "Y", "Z", "W">>

Directories ==
    { [i \in 1..k |-> [name |-> AggNames[i], code |-> c[i]]] :
        k \in 0..MaxOps, c \in [1..MaxOps -> AggCodes] }

HorizonMaps ==
    UNION { [K -> {1, 2}] : K \in SUBSET (AggCodes \cup { <<"x">> }) }

\* Lists of ReturnData for the ranking.
OtherFields == { <<NoneVal, NoneVal>>, <<Some(1), Some(2)>> }

LongVals == {NoneVal} \cup { Some(n) : n \in 1..MaxVal }

RankInputs ==
    UNION { { [i \in 1..k |-> ReturnData(AggNames[i], o[i][1], o[i][2], l[i])] :
                o \in [1..k -> OtherFields], l \in [1..k -> LongVals] } :
            k \in 1..MaxRows }

\* ------------------------------------------------------------------- Init

Idle ==
    /\ response = NoResponse
    /\ fetched = NotCalled
    /\ ranking_df = <<>>
    /\ error = "none"
    /\ events = <<>>

\* The program as started from the command line.
Init ==
    /\ pc = "NotStarted"
    /\ server = PipelineResponses
    /\ operators = OPERATORS
    /\ short_data = EmptyMap
    /\ medium_data = EmptyMap
    /\ long_data = EmptyMap
    /\ returns_list = <<>>
    /\ Idle

\* One call of fetch_returns_for_horizon about to be made, for every horizon
\* and every response.
InitFetch ==
    /\ pc \in {"FetchingShort", "FetchingMedium", "FetchingLong"}
    /\ \E r \in FetchResponses : server = {r}
    /\ operators = OPERATORS
    /\ short_data = EmptyMap
    /\ medium_data = EmptyMap
    /\ long_data = EmptyMap
    /\ returns_list = <<>>
    /\ Idle

\* The merge about to run, for every operator table and every three maps.
InitAggregate ==
    /\ pc = "Aggregating"
    /\ server = {}
    /\ operators \in Directories
    /\ short_data \in HorizonMaps
    /\ medium_data \in HorizonMaps
    /\ long_data \in HorizonMaps
    /\ returns_list = <<>>
    /\ Idle

\* create_ranking about to run, for every list of ReturnData.
InitRank ==
    /\ pc = "Ranking"
    /\ server = {}
    /\ operators = OPERATORS
    /\ short_data = EmptyMap
    /\ medium_data = EmptyMap
    /\ long_data = EmptyMap
    /\ returns_list \in RankInputs
    /\ Idle

\* ---------------------------------------------------------------- actions

\* main calls collect_returns
Start ==
    /\ pc = "NotStarted"
    /\ pc' = "FetchingShort"
    /\ UNCHANGED <<server, response, fetched, operators, short_data, medium_data,
                   long_data, returns_list, ranking_df, error, events>>

\* Call with a failed fetch treated as an empty map and the run going on.
CallLenient(horizon, resp, next) ==
    LET out == fetch_returns_for_horizon(horizon, resp) IN
    /\ response' = resp
    /\ fetched' = out
    /\ events' = Append(events, Event("fetch", horizon, out.exc, 0))
    /\ pc' = next
    /\ error' = IF out.exc = "none" THEN error ELSE Handler(out.exc)
    /\ UNCHANGED <<server, operators, returns_list, ranking_df>>

\* The part of a fetch that is the same for the three horizons: the call is
\* made, and an exception leaves collect_returns and is caught in main.
Call(horizon, resp, next) ==
    LET out == fetch_returns_for_horizon(horizon, resp) IN
    /\ response' = resp
    /\ fetched' = out
    /\ events' = Append(events, Event("fetch", horizon, out.exc, 0))
    /\ pc' = IF out.exc = "none" THEN next ELSE "Failed"
    /\ error' = IF out.exc = "none" THEN error ELSE Handler(out.exc)
    /\ UNCHANGED <<server, operators, returns_list, ranking_df>>

\* short_data = fetch_returns_for_horizon("short")
FetchShort ==
    /\ pc = "FetchingShort"
    /\ \E resp \in server :
          /\ Call("short", resp, "PacingAfterShort")
          /\ short_data' = fetch_returns_for_horizon("short", resp).result
    /\ UNCHANGED <<medium_data, long_data>>

\* medium_data = fetch_returns_for_horizon("medium")
FetchMedium ==
    /\ pc = "FetchingMedium"
    /\ \E resp \in server :
          /\ Call("medium", resp, "PacingAfterMedium")
          /\ medium_data' = fetch_returns_for_horizon("medium", resp).result
    /\ UNCHANGED <<short_data, long_data>>

\* long_data = fetch_returns_for_horizon("long")
FetchLong ==
    /\ pc = "FetchingLong"
    /\ \E resp \in server :
          /\ Call("long", resp, "Aggregating")
          /\ long_data' = fetch_returns_for_horizon("long", resp).result
    /\ UNCHANGED <<short_data, medium_data>>

\* time.sleep(CALL_DELAY_SEC)
Sleep(next) ==
    /\ events' = Append(events, Event("sleep", "", "none", CALL_DELAY_SEC))
    /\ pc' = next
    /\ UNCHANGED <<server, response, fetched, operators, short_data, medium_data,
                   long_data, returns_list, ranking_df, error>>

PaceAfterShort == pc = "PacingAfterShort" /\ Sleep("FetchingMedium")

\* PaceAfterMedium with the second time.sleep left out.
PaceAfterMediumNoSleep ==
    /\ pc = "PacingAfterMedium"
    /\ pc' = "FetchingLong"
    /\ UNCHANGED <<server, response, fetched, operators, short_data, medium_data,
                   long_data, returns_list, ranking_df, error, events>>

PaceAfterMedium == pc = "PacingAfterMedium" /\ Sleep("FetchingLong")

\* The loop over OPERATORS and the return to main.
AggregateStep ==
    /\ pc = "Aggregating"
    /\ returns_list' = Aggregate(operators, short_data, medium_data, long_data)
    /\ events' = Append(events, Event("aggregate", "", "none", 0))
    /\ pc' = "Ranking"
    /\ UNCHANGED <<server, response, fetched, operators, short_data, medium_data,
                   long_data, ranking_df, error>>

\* ranking_df = create_ranking(returns_list), then the output
Rank ==
    /\ pc = "Ranking"
    /\ ranking_df' \in create_ranking(returns_list)
    /\ events' = Append(events, Event("rank", "", "none", 0))
    /\ pc' = "Done"
    /\ UNCHANGED <<server, response, fetched, operators, short_data, medium_data,
                   long_data, returns_list, error>>

Next ==
    \/ Start
    \/ FetchShort
    \/ PaceAfterShort
    \/ FetchMedium
    \/ PaceAfterMedium
    \/ FetchLong
    \/ AggregateStep
    \/ Rank

Spec == Init /\ [][Next]_vars

NextFetch == FetchShort \/ FetchMedium \/ FetchLong

SpecFetch == InitFetch /\ [][NextFetch]_vars

SpecAggregate == InitAggregate /\ [][AggregateStep]_vars

SpecRank == InitRank /\ [][Rank]_vars

\* ------------------------------------------------------------------ claims

FailedFetch(e) == e.op = "fetch" /\ e.exc # "none"

\* C1: a failed horizon fetch ends the run in Failed: the failed call is the
\* last thing the run did (no later fetch, no pacing delay, no aggregation,
\* no ranking), no horizon is fetched twice, nothing was aggregated or
\* ranked, and a ranking exists only after three successful fetches.
C1_FailureAborts ==
    /\ \A i \in 1..Len(events) :
          FailedFetch(events[i]) =>
              /\ i = Len(events)
              /\ pc = "Failed"
              /\ error # "none"
              /\ returns_list = <<>>
              /\ ranking_df = <<>>
              /\ \A j \in 1..Len(events) : events[j].op \in {"fetch", "sleep"}
    /\ \A i, j \in 1..Len(events) :
          (i # j /\ events[i].op = "fetch" /\ events[j].op = "fetch")
              => events[i].horizon # events[j].horizon
    /\ pc = "Failed" => (events # <<>> /\ FailedFetch(events[Len(events)]))
    /\ (ranking_df # <<>> \/ pc = "Done") =>
          \A h \in Horizons :
              \E i \in 1..Len(events) : events[i] = Event("fetch", h, "none", 0)

\* C1 witness: the medium fetch failed with a transport or shape error after
\* a successful short fetch and one pacing delay.
C1_Witness ==
    /\ pc = "Failed"
    /\ Len(events) = 3
    /\ events[3].horizon = "medium"
    /\ events[3].exc \in {"HTTPError", "ConnectionError", "KeyError"}

Schedule ==
    << [op |-> "fetch", horizon |-> "short", secs |-> 0],
       [op |-> "sleep", horizon |-> "", secs |-> CALL_DELAY_SEC],
       [op |-> "fetch", horizon |-> "medium", secs |-> 0],
       [op |-> "sleep", horizon |-> "", secs |-> CALL_DELAY_SEC],
       [op |-> "fetch", horizon |-> "long", secs |-> 0],
       [op |-> "aggregate", horizon |-> "", secs |-> 0],
       [op |-> "rank", horizon |-> "", secs |-> 0] >>

\* C2: what the run has done is always a prefix of: fetch short, delay,
\* fetch medium, delay, fetch long, aggregate, rank; the aggregation comes
\* only after the long fetch returned, and the ranking after the
\* aggregation.
C2_CallOrder ==
    /\ Len(events) <= Len(Schedule)
    /\ \A i \in 1..Len(events) :
          /\ events[i].op = Schedule[i].op
          /\ events[i].horizon = Schedule[i].horizon
          /\ events[i].secs = Schedule[i].secs
    /\ pc \in {"Ranking", "Done"} => (Len(events) >= 6 /\ events[5].exc = "none")
    /\ returns_list # <<>> => Len(events) >= 6
    /\ ranking_df # <<>> => Len(events) = 7
    /\ pc = "FetchingShort" => events = <<>>
    /\ pc = "FetchingMedium" => Len(events) = 2
    /\ pc = "FetchingLong" => Len(events) = 4
    /\ pc = "Aggregating" => Len(events) = 5

\* C2 witness: a run that ranked.
C2_Witness == pc = "Done" /\ Len(events) = 7 /\ ranking_df # <<>>

HorizonMapOf(h) ==
    CASE h = "short" -> short_data
      [] h = "medium" -> medium_data
      [] OTHER -> long_data

\* C3: the merge yields one record per entry of the operator table, in the
\* table's order; each horizon's field is the value under the entry's code
\* in that horizon's map when the code is a key, and None otherwise; a code
\* that is only a key of a map yields no row.
C3_Aggregation ==
    pc = "Ranking" =>
        /\ Len(returns_list) = Len(operators)
        /\ \A i \in 1..Len(returns_list) :
              /\ returns_list[i].operator = operators[i].name
              /\ \A h \in Horizons :
                    LET got == returns_list[i][h]
                        m == HorizonMapOf(h)
                        code == operators[i].code
                    IN IF code \in DOMAIN m
                       THEN got.present /\ got.v = m[code]
                       ELSE got = NoneVal

\* C3 witness: a table of two operators merged with a full, a partial and an
\* empty map, one of which has a code that is in no table entry.
C3_Witness ==
    /\ pc = "Ranking"
    /\ Len(returns_list) = 2
    /\ operators[1].code # operators[2].code
    /\ DOMAIN short_data = { <<"a">>, <<"b">>, <<"x">> }
    /\ DOMAIN medium_data = { <<"b">> }
    /\ DOMAIN long_data = {}
    /\ returns_list[1].short.present
    /\ ~returns_list[1].long.present

C7_StableRanking ==
    pc = "Done" =>
        \A i, j \in 1..Len(ranking_df) :
            ( /\ i < j
              /\ ranking_df[i].row.Long_term.present
              /\ ranking_df[j].row.Long_term.present
              /\ ranking_df[i].row.Long_term.v = ranking_df[j].row.Long_term.v )
                => ranking_df[i].index < ranking_df[j].index

Called == fetched.exc # "pending"

Recognised(b) ==
    \/ b.kind = "list"
    \/ /\ b.kind = "dict"
       /\ \E k \in {"datos", "data", "records", "result"} : b[k].t = "list"

\* C5: once the envelope is recognised, no element of the list makes the
\* fetch fail.
C5_ElementsNeverFailFetch ==
    (Called /\ response.transport = "ok" /\ Recognised(response.body))
        => fetched.exc = "none"

PriorityList(b) ==
    IF b.datos.t = "list" THEN b.datos.items
    ELSE IF b.data.t = "list" THEN b.data.items
    ELSE IF b.records.t = "list" THEN b.records.items
    ELSE b.result.items

\* C6: a transported body is refused with the shape error (KeyError) exactly
\* when it is neither a list nor a mapping with a list under one of the four
\* keys; from a mapping the records are those under the first of datos,
\* data, records, result that holds a list.
C6_ShapeAndPriority ==
    (Called /\ response.transport = "ok") =>
        /\ fetched.exc = "KeyError" <=> ~Recognised(response.body)
        /\ (response.body.kind = "dict" /\ Recognised(response.body)) =>
              LET d == ProcessRecords(EmptyMap, PriorityList(response.body),
                                      "rendimiento")
              IN /\ fetched.exc = d.exc
                 /\ d.exc = "none" => fetched.result = d.result

\* C6 witness: datos holds something that is not a list, data an empty list
\* and records a list of one record; the fetch returned the empty map.
C6_Witness ==
    /\ Called
    /\ response.body.kind = "dict"
    /\ response.body.datos = NonList
    /\ response.body.data = ListOf(<<>>)
    /\ response.body.records = Marker(3)
    /\ fetched = [exc |-> "none", result |-> EmptyMap]

\* The first of the three code fields that is present with a value other
\* than null.
FirstNonNullCode(rec) ==
    IF rec.operadora.t \notin {"missing", "null"} THEN rec.operadora
    ELSE IF rec.operador.t \notin {"missing", "null"} THEN rec.operador
    ELSE IF rec.codigo_operadora.t \notin {"missing", "null"}
    THEN rec.codigo_operadora
    ELSE JNull

Coercible(rec) ==
    rec.rendimiento.t # "missing" /\ PyFloat(rec.rendimiento).exc = "none"

\* C8: the code of a record is the first of operadora, operador,
\* codigo_operadora that is present and not null, and the record is stored
\* under it.
C8_FirstNonNullField ==
    (Called /\ response.body.kind = "list" /\ fetched.exc = "none") =>
        \A i \in 1..Len(response.body.items) :
            LET rec == response.body.items[i] IN
            /\ OperatorCode(rec) = FirstNonNullCode(rec)
            /\ (Coercible(rec) /\ Truthy(FirstNonNullCode(rec))) =>
                  Strip(PyStr(FirstNonNullCode(rec))) \in DOMAIN fetched.result

Valid(rec) ==
    rec.kind = "object" /\ Truthy(OperatorCode(rec)) /\ Coercible(rec)

KeyOf(rec) == Strip(PyStr(OperatorCode(rec)))

LastWith(items, key) ==
    CHOOSE j \in 1..Len(items) :
        /\ Valid(items[j]) /\ KeyOf(items[j]) = key
        /\ \A k \in (j + 1)..Len(items) :
              ~(Valid(items[k]) /\ KeyOf(items[k]) = key)

\* C9: the returned map has one entry for each trimmed code of a valid
\* record, its value is that of the last valid record with that trimmed
\* code, and a list of valid records never fails the fetch.
C9_LastWriteWins ==
    (Called /\ response.transport = "ok" /\ response.body.kind = "list") =>
        LET items == response.body.items IN
        /\ (\A i \in 1..Len(items) : Valid(items[i])) => fetched.exc = "none"
        /\ fetched.exc = "none" =>
              /\ DOMAIN fetched.result =
                    { KeyOf(items[i]) : i \in { j \in 1..Len(items) : Valid(items[j]) } }
              /\ \A i \in 1..Len(items) :
                    Valid(items[i]) =>
                        fetched.result[KeyOf(items[i])] =
                            PyFloat(items[LastWith(items, KeyOf(items[i]))].rendimiento).val

\* C9 witness: two valid records whose codes differ as written and agree
\* once trimmed, with different values; the map holds the second value.
C9_Witness ==
    /\ Called
    /\ fetched.exc = "none"
    /\ response.body.kind = "list"
    /\ Len(response.body.items) = 2
    /\ Valid(response.body.items[1])
    /\ Valid(response.body.items[2])
    /\ OperatorCode(response.body.items[1]) # OperatorCode(response.body.items[2])
    /\ KeyOf(response.body.items[1]) = KeyOf(response.body.items[2])
    /\ response.body.items[1].rendimiento # response.body.items[2].rendimiento
    /\ fetched.result[KeyOf(response.body.items[1])] =
          PyFloat(response.body.items[2].rendimiento).val

\* C10: every key of a returned map is a non-empty string without leading
\* or trailing whitespace.
C10_KeysTrimmedNonEmpty ==
    fetched.exc = "none" =>
        \A k \in DOMAIN fetched.result :
            /\ k # <<>>
            /\ k[1] \notin Whitespace
            /\ k[Len(k)] \notin Whitespace

====
